---- MODULE Spec2Model ----
(***************************************************************************)
(* A model of src/server.py: the tool dispatch layer, the two             *)
(* transcription flows, the transcript store and the temp directory.      *)
(* Text is modelled as sequences of one-character strings so that         *)
(* substring tests, sanitising and lexicographic order are computed.      *)
(***************************************************************************)
EXTENDS Integers, Sequences, FiniteSets, TLC

(* ---------------------------------------------------------------- bounds *)
MaxJobs == 2
MaxTicks == 1
MaxUnlinkFailures == 1
\* the helpers' arguments: characters around a title's filler, segments in a list
MaxFrag == 2
MaxSegs == 2

(* ------------------------------------------------------ program constants *)
\* name[:100] in sanitize_filename
MaxNameLen == 100
\* arguments.get("limit", 20)
DefaultLimit == 20

None == "None"
\* whisper_model = None: no engine instance (instances are numbered from 1)
NoModel == 0

(* ------------------------------------------------------------------ text *)
\* The characters the model uses, in code-point order.
Ascii ==
  << " ", "'", "*", "-", ".", "/", "0", "1", "2", "3", "4", "5", "6", "7",
     "8", "9", ":", "?", "F", "I", "K", "L", "R", "T", "U", "V", "Y", "[",
     "]", "_", "a", "b", "c", "d", "e", "f", "g", "i", "k", "l", "m", "n",
     "o", "r", "s", "t", "u", "v", "w", "x", "y" >>

Ord(c) == CHOOSE i \in 1..Len(Ascii) : Ascii[i] = c

UpperLetters ==
  << "A", "B", "C", "D", "E", "F", "G", "H", "I", "J", "K", "L", "M", "N", "O",
     "P", "Q", "R", "S", "T", "U", "V", "W", "X", "Y", "Z" >>
LowerLetters ==
  << "a", "b", "c", "d", "e", "f", "g", "h", "i", "j", "k", "l", "m", "n", "o",
     "p", "q", "r", "s", "t", "u", "v", "w", "x", "y", "z" >>

\* str.lower() on one character
LowerChar(c) ==
  IF \E i \in 1..Len(UpperLetters) : UpperLetters[i] = c
    THEN LowerLetters[CHOOSE i \in 1..Len(UpperLetters) : UpperLetters[i] = c]
    ELSE c

Lower(s) == [i \in 1..Len(s) |-> LowerChar(s[i])]

\* pat in s
Contains(s, pat) ==
  \E i \in 0..(Len(s) - Len(pat)) :
     \A j \in 1..Len(pat) : s[i + j] = pat[j]

\* Python's order on str: the first differing character decides, a proper
\* prefix is smaller.
StrLess(a, b) ==
  \E k \in 1..Len(b) :
     /\ \A j \in 1..(k - 1) : j <= Len(a) /\ a[j] = b[j]
     /\ k - 1 <= Len(a)
     /\ (k > Len(a) \/ Ord(a[k]) < Ord(b[k]))

DigitChars == << "0", "1", "2", "3", "4", "5", "6", "7", "8", "9" >>

RECURSIVE Dec(_)
\* str(n) for n >= 0
Dec(n) == IF n < 10 THEN << DigitChars[n + 1] >>
          ELSE Dec(n \div 10) \o << DigitChars[(n % 10) + 1] >>

\* f"{n:02d}"
Pad2(n) == IF n < 10 THEN << "0" >> \o Dec(n) ELSE Dec(n)

InvalidChars == { "<", ">", ":", "\"", "/", "\\", "|", "?", "*" }
Whitespace == { " " }

IsValidChar(c) == c \notin InvalidChars

RECURSIVE LStrip(_)
LStrip(s) == IF s # << >> /\ Head(s) \in Whitespace THEN LStrip(Tail(s)) ELSE s

RECURSIVE RStrip(_)
RStrip(s) == IF s # << >> /\ s[Len(s)] \in Whitespace
             THEN RStrip(SubSeq(s, 1, Len(s) - 1)) ELSE s

Strip(s) == RStrip(LStrip(s))

Truncate(s, n) == IF Len(s) > n THEN SubSeq(s, 1, n) ELSE s

\* a sanitiser that strips before it truncates
sanitize_filename_strip_first(name) ==
  Truncate(Strip(SelectSeq(name, IsValidChar)), MaxNameLen)

sanitize_filename(name) ==
  Strip(Truncate(SelectSeq(name, IsValidChar), MaxNameLen))

YouTube == << "Y", "o", "u", "T", "u", "b", "e" >>
Instagram == << "I", "n", "s", "t", "a", "g", "r", "a", "m" >>
VK == << "V", "K" >>
Rutube == << "R", "u", "t", "u", "b", "e" >>
TikTok == << "T", "i", "k", "T", "o", "k" >>
Video == << "V", "i", "d", "e", "o" >>
LocalFile == << "L", "o", "c", "a", "l", "F", "i", "l", "e" >>

\* a classifier that matches the URL as it is written
detect_platform_cased(url) ==
  LET u == url IN
  IF \/ Contains(u, << "y", "o", "u", "t", "u", "b", "e", ".", "c", "o", "m" >>)
     \/ Contains(u, << "y", "o", "u", "t", "u", ".", "b", "e" >>)
    THEN YouTube
  ELSE IF Contains(u, << "i", "n", "s", "t", "a", "g", "r", "a", "m", ".", "c", "o", "m" >>)
    THEN Instagram
  ELSE IF \/ Contains(u, << "v", "k", ".", "c", "o", "m" >>)
          \/ Contains(u, << "v", "k", "v", "i", "d", "e", "o" >>)
    THEN VK
  ELSE IF Contains(u, << "r", "u", "t", "u", "b", "e", ".", "r", "u" >>)
    THEN Rutube
  ELSE IF Contains(u, << "t", "i", "k", "t", "o", "k", ".", "c", "o", "m" >>)
    THEN TikTok
  ELSE Video

\* url_lower = url.lower(); the table is tried in order
detect_platform(url) ==
  LET u == Lower(url) IN
  IF \/ Contains(u, << "y", "o", "u", "t", "u", "b", "e", ".", "c", "o", "m" >>)
     \/ Contains(u, << "y", "o", "u", "t", "u", ".", "b", "e" >>)
    THEN YouTube
  ELSE IF Contains(u, << "i", "n", "s", "t", "a", "g", "r", "a", "m", ".", "c", "o", "m" >>)
    THEN Instagram
  ELSE IF \/ Contains(u, << "v", "k", ".", "c", "o", "m" >>)
          \/ Contains(u, << "v", "k", "v", "i", "d", "e", "o" >>)
    THEN VK
  ELSE IF Contains(u, << "r", "u", "t", "u", "b", "e", ".", "r", "u" >>)
    THEN Rutube
  ELSE IF Contains(u, << "t", "i", "k", "t", "o", "k", ".", "c", "o", "m" >>)
    THEN TikTok
  ELSE Video

\* a timestamp whose minutes are the minutes of the whole duration
format_timestamp_total_minutes(seconds) ==
  LET hours == seconds \div 3600
      minutes == seconds \div 60
      secs == seconds % 60
  IN IF hours > 0
       THEN << "[" >> \o Pad2(hours) \o << ":" >> \o Pad2(minutes) \o << ":" >>
            \o Pad2(secs) \o << "]" >>
       ELSE << "[" >> \o Pad2(minutes) \o << ":" >> \o Pad2(secs) \o << "]" >>

\* format_timestamp on whole seconds
format_timestamp(seconds) ==
  LET hours == seconds \div 3600
      minutes == (seconds % 3600) \div 60
      secs == seconds % 60
  IN IF hours > 0
       THEN << "[" >> \o Pad2(hours) \o << ":" >> \o Pad2(minutes) \o << ":" >>
            \o Pad2(secs) \o << "]" >>
       ELSE << "[" >> \o Pad2(minutes) \o << ":" >> \o Pad2(secs) \o << "]" >>

format_duration(seconds) ==
  LET hours == seconds \div 3600
      minutes == (seconds % 3600) \div 60
      secs == seconds % 60
  IN IF hours > 0
       THEN Dec(hours) \o << ":" >> \o Pad2(minutes) \o << ":" >> \o Pad2(secs)
       ELSE Dec(minutes) \o << ":" >> \o Pad2(secs)

(* ------------------------------------------------------------ input sets *)
DEFAULT_LANGUAGE == "ru"

\* transcribe_url arguments: the language is absent (None) or given
UrlRequests ==
  { [url |-> << "y", "o", "u", "t", "u", ".", "b", "e", "/", "a" >>, language |-> None],
    [url |-> << "x", ".", "i", "o", "/", "b" >>, language |-> "en"] }

Unknown == << "U", "n", "k", "n", "o", "w", "n" >>

StrVal(s) == [t |-> "str", v |-> s]
NullStr == [t |-> "null", v |-> << >>]
IntVal(n) == [t |-> "int", v |-> n]
FloatVal(n) == [t |-> "float", v |-> n]
NullNum == [t |-> "null", v |-> 0]

\* What the metadata subprocess can do: raise (timeout, spawn failure), exit
\* non-zero, print text that is not JSON, print JSON that is not an object,
\* or print an object; an object's keys may be absent and its values null,
\* and yt-dlp reports fractional durations.
ProbeOutcomes ==
  { [kind |-> "raise", title |-> NullStr, duration |-> NullNum, keys |-> {}],
    [kind |-> "nonzero", title |-> NullStr, duration |-> NullNum, keys |-> {}],
    [kind |-> "malformed", title |-> NullStr, duration |-> NullNum, keys |-> {}],
    [kind |-> "object", title |-> NullStr, duration |-> NullNum, keys |-> {}],
    [kind |-> "object", title |-> StrVal(<< "a", ":" >>), duration |-> IntVal(3725),
     keys |-> {"title", "duration"}],
    [kind |-> "object", title |-> StrVal(<< "a" >>), duration |-> FloatVal(12),
     keys |-> {"title", "duration"}],
    [kind |-> "object", title |-> NullStr, duration |-> IntVal(125),
     keys |-> {"title", "duration"}] }

\* The all-default record of get_video_info
DefaultInfo == [title |-> StrVal(Unknown), duration |-> IntVal(0)]

\* info.get(key, default)
DictGet(o, key, default) == IF key \in o.keys THEN o[key] ELSE default

get_video_info(o) ==
  IF o.kind = "object"
    THEN [title |-> DictGet(o, "title", StrVal(Unknown)),
          duration |-> DictGet(o, "duration", IntVal(0))]
    ELSE DefaultInfo

\* Segment lists the inference engine can yield
Seg(s, e, txt) == [start |-> s, end |-> e, text |-> txt]
SegmentLists ==
  { << >>,
    << Seg(65, 70, << "y", "o" >>), Seg(3725, 3730, << "h", "i" >>) >> }

RECURSIVE JoinTexts(_)
\* " ".join(seg["text"] for seg in segments)
JoinTexts(segs) ==
  IF segs = << >> THEN << >>
  ELSE IF Len(segs) = 1 THEN segs[1].text
  ELSE segs[1].text \o << " " >> \o JoinTexts(Tail(segs))

\* transcribe_file arguments: a path with or without a leading "~"
FileRequests ==
  { [file_path |-> [tilde |-> TRUE, stem |-> << "a" >>, suffix |-> "mp3"],
     language |-> None],
    [file_path |-> [tilde |-> FALSE, stem |-> << "a", "?" >>, suffix |-> "wav"],
     language |-> "en"] }

\* Path(file_path).expanduser()
expanduser(p) == [home |-> p.tilde, stem |-> p.stem, suffix |-> p.suffix]

Limits == { -1, 0, 1, 2, DefaultLimit }

(* ------------------------------------------------------------- temp files *)
AudioStem == "audio_"
DownloadExts == { "mp3", "webm" }

TempFile(stem, ts, ext, owner) ==
  [stem |-> stem, ts |-> ts, ext |-> ext, owner |-> owner]

SameName(f, g) == f.stem = g.stem /\ f.ts = g.ts /\ f.ext = g.ext

\* TEMP_DIR.glob("audio_*.mp3")
GlobAudioMp3(dir) == { f \in dir : f.stem = AudioStem /\ f.ext = "mp3" }

\* TEMP_DIR.glob("audio_*")
GlobAudio(dir) == { f \in dir : f.stem = AudioStem }

\* Files written into a directory replace files of the same name.
WriteFiles(dir, new) ==
  { f \in dir : \A g \in new : ~SameName(f, g) } \cup new

\* What the temp directory holds when the process starts: an unrelated file
InitTempFiles == { TempFile("keep", 0, "txt", 0) }

(* ------------------------------------------------------- transcript store *)
\* datetime.now().strftime("%Y-%m-%d_%H%M") on the model's day; t is in
\* seconds since its midnight
DateStr(t) ==
  << "2", "0", "2", "4", "-", "0", "1", "-", "0", "1", "_" >>
  \o Pad2(t \div 3600) \o Pad2((t % 3600) \div 60)

\* f"{date_str}_{platform}_{safe_title}.txt"
TranscriptName(t, platform, title) ==
  DateStr(t) \o << "_" >> \o platform \o << "_" >> \o sanitize_filename(title)
  \o << ".", "t", "x", "t" >>

\* segment lines appended last segment first
SegmentLinesReversed(segs) ==
  [i \in 1..Len(segs) |->
     format_timestamp(segs[Len(segs) + 1 - i].start) \o << " " >>
     \o segs[Len(segs) + 1 - i].text]

\* the lines save_transcript appends for the segments:
\* f"{timestamp} {seg['text']}"
SegmentLines(segs) ==
  [i \in 1..Len(segs) |->
     format_timestamp(segs[i].start) \o << " " >> \o segs[i].text]

RECURSIVE JoinLines(_)
\* "\n".join(lines)
JoinLines(lines) ==
  IF lines = << >> THEN << >>
  ELSE IF Len(lines) = 1 THEN lines[1]
  ELSE lines[1] \o << "\n" >> \o JoinLines(Tail(lines))

TranscriptContent(source, platform, title, t, duration, segs, language) ==
  [source |-> source, platform |-> platform, title |-> title,
   date |-> DateStr(t), duration |-> format_duration(duration),
   language |-> language, lines |-> JoinLines(SegmentLines(segs)),
   full_text |-> JoinTexts(segs)]

\* a write that leaves an existing file as it is
WriteTextExclusive(dir, name, content) ==
  [n \in (DOMAIN dir) \cup {name} |-> IF n \in DOMAIN dir THEN dir[n] ELSE content]

\* filepath.write_text(...): creates the file or replaces its content
WriteText(dir, name, content) ==
  [n \in (DOMAIN dir) \cup {name} |-> IF n = name THEN content ELSE dir[n]]

\* The exception save_transcript raises on the values it is given, if any:
\* re.sub on a title that is no string, the d format code on a duration
\* that is no int.
SaveError(title, duration) ==
  IF title.t # "str" THEN "TypeError"
  ELSE IF duration.t = "float" THEN "ValueError"
  ELSE IF duration.t # "int" THEN "TypeError"
  ELSE None

RECURSIVE SortDesc(_)
\* sorted(names, reverse=True)
SortDesc(S) ==
  IF S = {} THEN << >>
  ELSE LET m == CHOOSE x \in S : \A y \in S \ {x} : StrLess(y, x)
       IN << m >> \o SortDesc(S \ {m})

\* seq[:limit]
SliceTo(seq, limit) ==
  LET n == Len(seq)
      stop == IF limit < 0 THEN (IF n + limit < 0 THEN 0 ELSE n + limit)
              ELSE IF limit > n THEN n ELSE limit
  IN SubSeq(seq, 1, stop)

handle_list_transcripts(dir, limit) ==
  LET files == SliceTo(SortDesc(DOMAIN dir), limit)
  IN [kind |-> "list", count |-> Len(files), files |-> files]

\* Transcripts an earlier process left in the store
OldName(title) ==
  << "2", "0", "2", "3", "-", "1", "2", "-", "3", "1", "_", "2", "3", "5", "9", "_" >>
  \o Video \o << "_" >> \o title \o << ".", "t", "x", "t" >>

OldContent(title) ==
  [source |-> << "x", ".", "i", "o", "/", "b" >>, platform |-> Video,
   title |-> title, date |-> << >>, duration |-> format_duration(0),
   language |-> DEFAULT_LANGUAGE, lines |-> << >>, full_text |-> << >>]

OldNames == { OldName(<< "a" >>), OldName(<< "a", " ", "b" >>) }

OldTranscripts ==
  [n \in OldNames |->
     IF n = OldName(<< "a" >>) THEN OldContent(<< "a" >>)
     ELSE OldContent(<< "a", " ", "b" >>)]

(* ----------------------------------------------------------------- results *)
Error(msg) == [kind |-> "error", msg |-> msg]

DownloadFailed(url) ==
  Error(<< "Failed to download audio from ", url, ". Make sure the video is public." >>)
ArtifactMissing == Error(<< "Audio file not found after download" >>)
NoSpeechVideo == Error(<< "No speech detected in the video" >>)
NoSpeechFile == Error(<< "No speech detected in the file" >>)
FileNotFound(path) == Error(<< "File not found: ", path >>)
UnknownTool(name) == Error(<< "Unknown tool: ", name >>)

\* json.dumps(result, indent=2): the text that renders the record
JsonDumps(r) == << "json", r >>

\* a dispatcher without the except clause: the exception reaches the caller
RespondUncaught(exc, result) ==
  IF exc # None
    THEN [raised |-> TRUE, text |-> << >>]
    ELSE [raised |-> FALSE, text |-> JsonDumps(result)]

\* The tail of handle_tool_call: an exception that escaped the handler is
\* caught and rendered as {"error": str(e)}, otherwise the record is rendered.
Respond(exc, result) ==
  IF exc # None
    THEN [raised |-> FALSE, text |-> JsonDumps(Error(<< exc >>))]
    ELSE [raised |-> FALSE, text |-> JsonDumps(result)]

(* ------------------------------------------------------------------ state *)
VARIABLES
  now,            \* wall clock, seconds since midnight of the model's day
  ticks,          \* clock advances so far
  temp,           \* TEMP_DIR: a set of temp files
  store,          \* TRANSCRIPTS_DIR: file name -> content
  whisper_model,  \* the module global: None or the engine instance
  loads,          \* engines constructed so far
  pc,             \* position of the call in flight
  job,            \* locals of the call in flight
  trace,          \* stages the call in flight has invoked, in order
  response,       \* what handle_tool_call gave the caller of the last call
  njobs,          \* calls started so far
  unlinkFailed,   \* a removal failed in the cleanup of the call in flight
  faults,         \* removals that have failed so far
  store0,         \* the store when the call in flight started
  saves,          \* the files named by the success records, in order
  engines,        \* the engine instance of each model.transcribe call, in order
  arg,            \* the helper applied on its own and its argument
  out             \* what the helper returned

vars == << now, ticks, temp, store, whisper_model, loads, pc, job, trace,
           response, njobs, unlinkFailed, faults, store0, saves, engines,
           arg, out >>

NoFile == TempFile("", 0, "", 0)

NoJob ==
  [id |-> 0, tool |-> None, url |-> << >>, path |-> None, language |-> None,
   platform |-> << >>, title |-> NullStr, duration |-> NullNum,
   actual_file |-> NoFile, segments |-> << >>, acquired |-> None,
   spoke |-> None, found |-> None,
   limit |-> 0, exc |-> None, result |-> Error(<< >>)]

\* No helper has been applied on its own
NoArg == [fn |-> None, x |-> << >>]

\* No call has returned yet
NoResponse == [raised |-> FALSE, text |-> << >>]

Init ==
  /\ now = 0
  /\ ticks = 0
  /\ temp = InitTempFiles
  /\ store = OldTranscripts
  /\ whisper_model = NoModel
  /\ loads = 0
  /\ pc = "idle"
  /\ job = NoJob
  /\ trace = << >>
  /\ response = NoResponse
  /\ njobs = 0
  /\ unlinkFailed = FALSE
  /\ faults = 0
  /\ store0 = store
  /\ saves = << >>
  /\ engines = << >>
  /\ arg = NoArg
  /\ out = << >>

\* The clock advances by a second or by a minute. The clock is read when
\* the temp path is named and when the transcript is named, so it is let
\* advance between calls and between those two readings.
Tick ==
  /\ ticks < MaxTicks
  /\ pc \in {"idle", "done", "save"}
  /\ \E d \in {1, 60} : now' = now + d
  /\ ticks' = ticks + 1
  /\ UNCHANGED << arg, out, temp, store, whisper_model, loads, pc, job, trace, response,
                  njobs, unlinkFailed, faults, store0, saves, engines >>

\* a handler that hands the event loop back while its download runs
AwaitPointsDownload == {"locate"}

\* The places where a handler in flight hands control back to the event loop:
\* the handlers are coroutines that await nothing but each other, and every
\* stage (yt-dlp, whisper, the file system) is a blocking call.
AwaitPoints == {}

\* call_tool: the event loop starts a call when no handler is running, which
\* is when none is in flight or the one in flight is suspended at an await
CanCall == (pc \in {"idle", "done"} \/ pc \in AwaitPoints) /\ njobs < MaxJobs

\* What every call sets when handle_tool_call is entered
Begin(tool, j, next) ==
  /\ CanCall
  /\ njobs' = njobs + 1
  /\ job' = [j EXCEPT !.id = njobs + 1, !.tool = tool]
  /\ pc' = next
  /\ trace' = << >>
  /\ unlinkFailed' = FALSE
  /\ store0' = store
  /\ response' = NoResponse
  /\ UNCHANGED << arg, out, now, ticks, temp, store, whisper_model, loads, faults, saves,
                  engines >>

\* language or DEFAULT_LANGUAGE
ResolveLanguage(language) == IF language = None THEN DEFAULT_LANGUAGE ELSE language

\* handle_tool_call, name == "transcribe_url": arguments["url"] raises
\* KeyError when the key is absent; otherwise handle_transcribe_url starts.
CallTranscribeUrl ==
  \/ Begin("transcribe_url", [NoJob EXCEPT !.exc = "KeyError"], "return")
  \/ \E a \in UrlRequests :
       Begin("transcribe_url",
             [NoJob EXCEPT !.url = a.url,
                           !.language = ResolveLanguage(a.language),
                           !.platform = detect_platform(a.url)],
             "probe")

\* a file flow that goes on whether or not the path exists
AfterExistsIgnored(exists) == "transcribe"

\* if not path.exists(): return {"error": ...}
AfterExists(exists) == IF exists THEN "transcribe" ELSE "return"

\* handle_tool_call, name == "transcribe_file"; whether the expanded path
\* exists is the file system's answer
CallTranscribeFile ==
  \/ Begin("transcribe_file", [NoJob EXCEPT !.exc = "KeyError"], "return")
  \/ \E a \in FileRequests, exists \in BOOLEAN :
       Begin("transcribe_file",
             [NoJob EXCEPT !.path = a.file_path,
                           !.language = ResolveLanguage(a.language),
                           !.found = IF exists THEN "yes" ELSE "no",
                           !.result = IF exists THEN NoJob.result
                                      ELSE FileNotFound(a.file_path)],
             AfterExists(exists))

\* handle_tool_call, name == "list_transcripts"
CallListTranscripts ==
  \E limit \in Limits :
    Begin("list_transcripts", [NoJob EXCEPT !.limit = limit], "list")

\* handle_tool_call, any other name
CallUnknown ==
  Begin("bogus", [NoJob EXCEPT !.result = UnknownTool("bogus")], "return")

(* --------------------------------------------------------------- URL flow *)
\* a file flow that runs the URL flow's finally block
LeaveAlwaysCleanup(tool) == "cleanup"

\* Where a flow goes when it leaves its try block or raises: the URL flow
\* runs its finally block first, the file flow returns at once.
Leave(tool) == IF tool = "transcribe_url" THEN "cleanup" ELSE "return"

\* A handler that returns or raises: its result or exception is what is left
\* of it, the other locals are dead.
Finish(j, result, exc) ==
  [NoJob EXCEPT !.id = j.id, !.tool = j.tool, !.url = j.url, !.path = j.path,
                !.acquired = j.acquired, !.spoke = j.spoke, !.found = j.found,
                !.result = result, !.exc = exc]

\* info = get_video_info(url); title = info["title"]; duration = info["duration"]
Probe ==
  /\ pc = "probe"
  /\ \E o \in ProbeOutcomes :
       LET info == get_video_info(o) IN
       job' = [job EXCEPT !.title = info.title, !.duration = info.duration]
  /\ trace' = Append(trace, "probe")
  /\ pc' = "download"
  /\ UNCHANGED << arg, out, now, ticks, temp, store, whisper_model, loads, response,
                  njobs, unlinkFailed, faults, store0, saves, engines >>

\* a flow that goes on whatever download_audio returned
AfterDownloadIgnored(ok) == "locate"

\* if not download_audio(url, temp_audio): return {"error": ...}
AfterDownload(ok) == IF ok THEN "locate" ELSE "cleanup"

\* temp_audio is named by the second (audio_<now>.mp3); download_audio reports the exit status
\* and leaves zero, one or more files named after temp_audio, whose extension
\* the downloader chooses.
Download ==
  /\ pc = "download"
  /\ \E ok \in BOOLEAN, exts \in SUBSET DownloadExts :
       LET made == { TempFile(AudioStem, now, e, job.id) : e \in exts }
       IN /\ temp' = WriteFiles(temp, made)
          /\ pc' = AfterDownload(ok)
          /\ LET j == [job EXCEPT !.acquired = IF ok THEN "ok" ELSE "failed"]
             IN job' = IF pc' = "locate" THEN j
                       ELSE Finish(j, DownloadFailed(j.url), None)
  /\ trace' = Append(trace, "download")
  /\ UNCHANGED << arg, out, now, ticks, store, whisper_model, loads, response, njobs,
                  unlinkFailed, faults, store0, saves, engines >>

\* The files the artifact scan can return
Candidates(dir) == GlobAudioMp3(dir)

\* for f in TEMP_DIR.glob("audio_*.mp3"): actual_file = f; break
\* The directory's iteration order is the file system's: any match may be first.
Locate ==
  /\ pc = "locate"
  /\ LET found == Candidates(temp) IN
       IF found = {}
         THEN /\ job' = Finish(job, ArtifactMissing, None)
              /\ pc' = "cleanup"
         ELSE /\ \E f \in found : job' = [job EXCEPT !.actual_file = f]
              /\ pc' = "transcribe"
  /\ trace' = Append(trace, "locate")
  /\ UNCHANGED << arg, out, now, ticks, temp, store, whisper_model, loads, response,
                  njobs, unlinkFailed, faults, store0, saves, engines >>

\* an engine constructed on every call
NeedsLoadAlways(wm) == TRUE

\* if whisper_model is None
NeedsLoad(wm) == wm = NoModel

NoSpeech(tool) == IF tool = "transcribe_url" THEN NoSpeechVideo ELSE NoSpeechFile

\* a flow without the zero-segment check
AfterTranscribeUnchecked(tool, segs) == "save"

\* if not segments: return {"error": ...}
AfterTranscribe(tool, segs) == IF segs = << >> THEN Leave(tool) ELSE "save"

\* transcribe_audio: get_whisper_model() constructs the engine when the
\* global is None (the construction may raise, leaving it None), then
\* model.transcribe yields the segments or raises.
Transcribe ==
  /\ pc = "transcribe"
  /\ trace' = Append(trace, "transcribe")
  /\ \/ /\ NeedsLoad(whisper_model)
        /\ job' = Finish(job, NoJob.result, "RuntimeError")
        /\ pc' = Leave(job.tool)
        /\ UNCHANGED << whisper_model, loads, engines >>
     \/ /\ IF NeedsLoad(whisper_model)
             THEN whisper_model' = loads + 1 /\ loads' = loads + 1
             ELSE UNCHANGED << whisper_model, loads >>
        /\ engines' = Append(engines, whisper_model')
        /\ \/ /\ job' = Finish(job, NoJob.result, "RuntimeError")
              /\ pc' = Leave(job.tool)
           \/ \E segs \in SegmentLists :
                /\ pc' = AfterTranscribe(job.tool, segs)
                /\ LET j == [job EXCEPT !.spoke = IF segs = << >> THEN "empty"
                                                  ELSE "some"]
                   IN job' = IF pc' = "save"
                               THEN [j EXCEPT !.segments = segs, !.actual_file = NoFile]
                               ELSE Finish(j, NoSpeech(j.tool), None)
  /\ UNCHANGED << arg, out, now, ticks, temp, store, response, njobs, unlinkFailed,
                  faults, store0, saves >>

(* ------------------------------------------------------------ persistence *)
\* What each flow hands to save_transcript
SaveArgs(j) ==
  IF j.tool = "transcribe_url"
    THEN [source |-> j.url, platform |-> j.platform, title |-> j.title,
          duration |-> j.duration]
    ELSE [source |-> << "file://", expanduser(j.path) >>, platform |-> LocalFile,
          title |-> StrVal(j.path.stem),
          duration |-> IntVal(IF j.segments # << >>
                                THEN j.segments[Len(j.segments)].end ELSE 0)]

\* a success record that reports the path without its extension
SuccessStem(j, a, name) ==
  [kind |-> "success", source |-> a.source, platform |-> a.platform,
   title |-> a.title.v, duration |-> format_duration(a.duration.v),
   language |-> j.language, segments_count |-> Len(j.segments),
   saved_to |-> SubSeq(name, 1, Len(name) - 4), transcript |-> JoinTexts(j.segments)]

\* the success record: "saved_to": str(filepath), "transcript": full_text
Success(j, a, name) ==
  [kind |-> "success", source |-> a.source, platform |-> a.platform,
   title |-> a.title.v, duration |-> format_duration(a.duration.v),
   language |-> j.language, segments_count |-> Len(j.segments),
   saved_to |-> name, transcript |-> JoinTexts(j.segments)]

\* save_transcript and the success record built after it. The values may
\* make it raise before it writes; the write itself may be refused.
Save ==
  /\ pc = "save"
  /\ trace' = Append(trace, "save")
  /\ pc' = Leave(job.tool)
  /\ LET a == SaveArgs(job)
         err == SaveError(a.title, a.duration)
     IN IF err # None
          THEN /\ job' = Finish(job, NoJob.result, err)
               /\ UNCHANGED << store, saves >>
          ELSE LET name == TranscriptName(now, a.platform, a.title.v)
                   content == TranscriptContent(a.source, a.platform, a.title.v, now,
                                                a.duration.v, job.segments,
                                                job.language)
               IN \/ /\ job' = Finish(job, NoJob.result, "OSError")
                     /\ UNCHANGED << store, saves >>
                  \/ /\ store' = WriteText(store, name, content)
                     /\ saves' = Append(saves, name)
                     /\ job' = Finish(job, Success(job, a, name), None)
  /\ UNCHANGED << arg, out, now, ticks, temp, whisper_model, loads, response, njobs,
                  unlinkFailed, faults, store0, engines >>

\* a cleanup that scans with the artifact scan's pattern
CleanupTargetsMp3Only(dir) == GlobAudioMp3(dir)

\* for f in TEMP_DIR.glob("audio_*")
CleanupTargets(dir) == GlobAudio(dir)

\* a loop that the first removal that raises brings to an end
AfterUnlinksAbort(dir, failed) ==
  IF failed = {} THEN dir \ CleanupTargets(dir) ELSE dir

\* try: f.unlink() except: pass, for every match: the directory after the
\* loop, given the matches whose removal raised
AfterUnlinks(dir, failed) == dir \ (CleanupTargets(dir) \ failed)

\* The finally block: every match is unlinked; a removal that raises is
\* passed over and the file stays.
Cleanup ==
  /\ pc = "cleanup"
  /\ trace' = Append(trace, "cleanup")
  /\ \E failed \in SUBSET CleanupTargets(temp) :
       /\ faults + Cardinality(failed) <= MaxUnlinkFailures
       /\ faults' = faults + Cardinality(failed)
       /\ temp' = AfterUnlinks(temp, failed)
       /\ unlinkFailed' = (failed # {})
  /\ pc' = "return"
  /\ UNCHANGED << arg, out, now, ticks, store, whisper_model, loads, job, response,
                  njobs, store0, saves, engines >>

\* handle_list_transcripts
List ==
  /\ pc = "list"
  /\ trace' = Append(trace, "list")
  /\ job' = [job EXCEPT !.result = handle_list_transcripts(store, job.limit)]
  /\ pc' = "return"
  /\ UNCHANGED << arg, out, now, ticks, temp, store, whisper_model, loads, response,
                  njobs, unlinkFailed, faults, store0, saves, engines >>

\* handle_tool_call hands its caller the rendered result
Return ==
  /\ pc = "return"
  /\ response' = Respond(job.exc, job.result)
  /\ pc' = "done"
  /\ UNCHANGED << arg, out, now, ticks, temp, store, whisper_model, loads, job, trace,
                  njobs, unlinkFailed, faults, store0, saves, engines >>

Next ==
  \/ Tick
  \/ CallTranscribeUrl
  \/ CallTranscribeFile
  \/ CallListTranscripts
  \/ CallUnknown
  \/ Probe
  \/ Download
  \/ Locate
  \/ Transcribe
  \/ Save
  \/ Cleanup
  \/ List
  \/ Return

Spec == Init /\ [][Next]_vars

(* ------------------------------------------- the helpers on drawn arguments *)
\* Titles: a run of letters that reaches the length limit, with characters of
\* every kind before it and blanks and letters after it
NameChars == InvalidChars \cup { "a", " " }
Heads == UNION { [1..k -> NameChars] : k \in 0..MaxFrag }
Tails ==
  { << >>, << " " >>, << " ", "a" >>, << ":", " " >>, << "a", " ", " " >> }
Fill(k) == [i \in 1..k |-> "a"]
FillLens ==
  { 0, MaxNameLen - 2, MaxNameLen - 1, MaxNameLen, MaxNameLen + 1 }
Names == { p \o Fill(k) \o t : p \in Heads, k \in FillLens, t \in Tails }

\* URLs: a scheme, a host, and a path that may name another host
Hosts ==
  { << "y", "o", "u", "t", "u", "b", "e", ".", "c", "o", "m" >>,
    << "y", "o", "u", "t", "u", ".", "b", "e" >>,
    << "i", "n", "s", "t", "a", "g", "r", "a", "m", ".", "c", "o", "m" >>,
    << "v", "k", ".", "c", "o", "m" >>,
    << "v", "k", "v", "i", "d", "e", "o" >>,
    << "r", "u", "t", "u", "b", "e", ".", "r", "u" >>,
    << "t", "i", "k", "t", "o", "k", ".", "c", "o", "m" >>,
    << "Y", "o", "u", "T", "u", "b", "e", ".", "c", "o", "m" >>,
    << "Y", "o", "u", "t", "u", ".", "B", "E" >>,
    << "T", "I", "K", "T", "O", "K", ".", "C", "O", "M" >>,
    << "x", ".", "i", "o" >>,
    << "t", "u", "b", "e", ".", "c", "o", "m" >>,
    << "v", "k", ".", "r", "u" >> }
Scheme == << "h", "t", "t", "p", "s", ":", "/", "/" >>
Urls == { Scheme \o h \o << "/" >> \o r : h \in Hosts, r \in Hosts \cup { << >> } }

\* Whole seconds on both sides of every carry
SecondsArgs ==
  { h * 3600 + m * 60 + sec : h \in { 0, 1, 2, 10, 100 },
                              m \in { 0, 2, 9, 10, 59 },
                              sec \in { 0, 5, 9, 10, 59 } }

\* Segments as save_transcript may be handed them: texts are any strings
SegmentArgs ==
  { Seg(65, 70, << "y", "o" >>), Seg(3725, 3730, << "h", "i" >>),
    Seg(0, 2, << "a", "\n", "b" >>), Seg(65, 66, << >>) }
SegmentListArgs == UNION { [1..k -> SegmentArgs] : k \in 1..MaxSegs }
MetadataArgs ==
  { [source |-> Scheme \o << "x", ".", "i", "o" >>, platform |-> Video,
     title |-> << "a", ":" >>, duration |-> 125, language |-> "en"],
    [source |-> << "f", "i", "l", "e", ":", "/", "/", "a" >>, platform |-> LocalFile,
     title |-> << "a" >>, duration |-> 3730, language |-> DEFAULT_LANGUAGE] }

\* what a helper applied on its own leaves alone
Rest == << now, ticks, temp, store, whisper_model, loads, pc, job, trace,
           response, njobs, unlinkFailed, faults, store0, saves, engines >>

ApplySanitizeFilename ==
  /\ arg.fn = None
  /\ \E name \in Names :
       /\ arg' = [fn |-> "sanitize_filename", x |-> name]
       /\ out' = sanitize_filename(name)
  /\ UNCHANGED Rest

ApplyDetectPlatform ==
  /\ arg.fn = None
  /\ \E url \in Urls :
       /\ arg' = [fn |-> "detect_platform", x |-> url]
       /\ out' = detect_platform(url)
  /\ UNCHANGED Rest

ApplyFormat ==
  /\ arg.fn = None
  /\ \E seconds \in SecondsArgs :
       /\ arg' = [fn |-> "format", x |-> seconds]
       /\ out' = [timestamp |-> format_timestamp(seconds),
                  duration |-> format_duration(seconds)]
  /\ UNCHANGED Rest

\* save_transcript and the success record the handlers build from the same
\* segments
ApplySaveTranscript ==
  /\ arg.fn = None
  /\ \E m \in MetadataArgs, segs \in SegmentListArgs :
       LET j == [NoJob EXCEPT !.segments = segs, !.language = m.language]
           a == [source |-> m.source, platform |-> m.platform,
                 title |-> StrVal(m.title), duration |-> IntVal(m.duration)]
       IN /\ arg' = [fn |-> "save_transcript", x |-> [meta |-> m, segments |-> segs]]
          /\ out' = [content |-> TranscriptContent(m.source, m.platform, m.title,
                                                   now, m.duration, segs,
                                                   m.language),
                     record |-> Success(j, a, TranscriptName(now, m.platform,
                                                             m.title))]
  /\ UNCHANGED Rest

NextPure ==
  \/ ApplySanitizeFilename
  \/ ApplyDetectPlatform
  \/ ApplyFormat
  \/ ApplySaveTranscript

SpecPure == Init /\ [][NextPure]_vars

(* ----------------------------------------------------------------- claims *)
Stages == { trace[i] : i \in 1..Len(trace) }

\* handle_tool_call has returned to its caller
Returned == pc = "done"

\* The call in flight is a transcribe_url job whose handler was entered
UrlJob == job.tool = "transcribe_url" /\ trace # << >>

\* C1: when a transcribe_url job hands control back, whichever way it ended,
\* and no removal of its cleanup failed, the temp directory holds no file
\* matching audio_*.
C1_TempEmptyOnReturn ==
  (Returned /\ UrlJob /\ ~unlinkFailed) => GlobAudio(temp) = {}

\* C1 witness: a job whose persistence stage raised, after its download left
\* a file that was transcribed, has returned with every removal done.
C1_Witness ==
  /\ Returned /\ UrlJob /\ ~unlinkFailed
  /\ "save" \in Stages /\ job.exc # None
  /\ GlobAudio(temp) = {}

\* C2: the audio file handed to the transcription stage of a transcribe_url
\* job was created by that job's own acquisition.
C2_TranscribesOwnAudio ==
  (pc = "transcribe" /\ UrlJob) => job.actual_file.owner = job.id

\* C3: when audio acquisition does not succeed the job returns exactly the
\* download-failed error naming the URL, the transcription stage is never
\* invoked and no transcript file is written.
C3_DownloadFailure ==
  (Returned /\ UrlJob /\ job.acquired = "failed") =>
     /\ ~response.raised
     /\ response.text = JsonDumps(DownloadFailed(job.url))
     /\ "transcribe" \notin Stages
     /\ "save" \notin Stages
     /\ store = store0

\* C3 witness: a job whose acquisition failed has returned.
C3_Witness ==
  /\ Returned /\ UrlJob /\ job.acquired = "failed"
  /\ response.text = JsonDumps(DownloadFailed(job.url))

\* C4: handle_tool_call never raises: it returns the rendered record of the
\* handler, or {error: message} for an exception raised in the handler, and
\* {error: "Unknown tool: <name>"} for an unrecognised name.
C4_NeverRaises ==
  Returned =>
     /\ ~response.raised
     /\ response.text = JsonDumps(IF job.exc # None THEN Error(<< job.exc >>)
                                  ELSE job.result)
     /\ job.tool = "bogus" => response.text = JsonDumps(UnknownTool("bogus"))

\* C4 witness: an exception raised in the URL flow after which the cleanup
\* ran has been returned as an error record.
C4_Witness ==
  /\ Returned /\ UrlJob /\ job.exc # None /\ "cleanup" \in Stages
  /\ ~response.raised
  /\ response.text = JsonDumps(Error(<< job.exc >>))

Saved == { saves[i] : i \in 1..Len(saves) }

SaveTouchesOwnName ==
  /\ \A n \in DOMAIN store :
       /\ n \in DOMAIN store'
       /\ store'[n] # store[n] => (saves' # saves /\ n = saves'[Len(saves')])
  /\ saves' # saves =>
       LET name == saves'[Len(saves')] IN
       /\ Len(saves') = Len(saves) + 1
       /\ job'.result.kind = "success"
       /\ job'.result.saved_to = name
       /\ name \in DOMAIN store'
       /\ store'[name].source = job'.result.source
       /\ store'[name].title = job'.result.title
       /\ store'[name].full_text = job'.result.transcript

C6_ProbeNeverAborts ==
  /\ \A o \in ProbeOutcomes : o.kind # "object" => get_video_info(o) = DefaultInfo
  /\ ~(Returned /\ UrlJob /\ job.exc \in {"TypeError", "ValueError"})

\* C7: after acquisition reported success, the job returns the
\* artifact-missing error if and only if the temp directory holds no file
\* matching audio_*; otherwise it locates a file and goes on to transcription.
C7_LocatesAnyArtifact ==
  [][pc = "locate" =>
       /\ (job'.result = ArtifactMissing) <=> (GlobAudio(temp) = {})
       /\ (pc' = "transcribe") <=> (GlobAudio(temp) # {})]_vars

\* C8: the engine is constructed at most once; every model.transcribe call of
\* the process runs on that one instance, and the global keeps it.
C8_EngineOnce ==
  /\ loads <= 1
  /\ whisper_model = loads
  /\ \A i \in 1..Len(engines) : engines[i] = 1

\* C8 witness: two calls reached model.transcribe with one engine constructed.
C8_Witness ==
  /\ Len(engines) = 2 /\ loads = 1 /\ njobs = 2

Min(a, b) == IF a < b THEN a ELSE b

\* C9: for every integer limit, list_transcripts returns names in descending
\* order, never more than limit of them (min(limit, n) when limit >= 0, the
\* greatest names), and count is the number of entries.
C9_ListCapped ==
  (Returned /\ job.tool = "list_transcripts") =>
     LET r == job.result
         n == Cardinality(DOMAIN store)
         listed == { r.files[i] : i \in 1..Len(r.files) }
     IN /\ r.count = Len(r.files)
        /\ r.count <= job.limit
        /\ job.limit >= 0 => r.count = Min(job.limit, n)
        /\ \A i \in 1..(Len(r.files) - 1) : StrLess(r.files[i + 1], r.files[i])
        /\ listed \subseteq DOMAIN store
        /\ \A x \in (DOMAIN store) \ listed : \A y \in listed : StrLess(x, y)

\* What both flows owe when transcription yields no segment
NoSpeechOutcome ==
  /\ ~response.raised
  /\ job.tool = "transcribe_url" => response.text = JsonDumps(NoSpeechVideo)
  /\ job.tool = "transcribe_file" => response.text = JsonDumps(NoSpeechFile)
  /\ "save" \notin Stages
  /\ store = store0

\* C10 as stated: zero segments give the no-speech error of the flow, the
\* persistence stage is not invoked, and after a URL job the temp directory
\* holds no file matching audio_*.
C10_NoSpeechTempEmpty ==
  (Returned /\ job.spoke = "empty") =>
     /\ NoSpeechOutcome
     /\ job.tool = "transcribe_url" => GlobAudio(temp) = {}

\* C10 amended: as stated, the temp directory being empty of audio_* files
\* provided no removal of the job's cleanup failed.
C10_NoSpeech ==
  (Returned /\ job.spoke = "empty") =>
     /\ NoSpeechOutcome
     /\ (job.tool = "transcribe_url" /\ ~unlinkFailed) => GlobAudio(temp) = {}

\* C10 witness: a URL job whose transcription yielded no segment has returned
\* after a cleanup in which every removal was done.
C10_Witness ==
  /\ Returned /\ UrlJob /\ job.spoke = "empty" /\ ~unlinkFailed
  /\ response.text = JsonDumps(NoSpeechVideo)
  /\ GlobAudio(temp) = {}

\* C11: when the expanded path of a transcribe_file job does not exist the job
\* returns {error: "File not found: <path>"} with no further step: no stage
\* runs, the engine is not constructed and no transcript file is written.
C11_FileNotFound ==
  /\ []((Returned /\ job.found = "no") =>
          /\ ~response.raised
          /\ response.text = JsonDumps(FileNotFound(job.path))
          /\ trace = << >>
          /\ store = store0)
  /\ [][(job'.found = "no") =>
          UNCHANGED << whisper_model, loads, engines, store, temp >>]_vars

\* C11 witness: a job naming a path that does not exist has returned, no
\* engine having been constructed.
C11_Witness ==
  /\ Returned /\ job.found = "no" /\ whisper_model = NoModel
  /\ response.text = JsonDumps(FileNotFound(job.path))

\* a job is in flight from the entry of its handler until its result is handed
\* back
InFlight == pc \notin {"idle", "done"}

RECURSIVE SplitOn(_, _)
\* text.split(sep)
SplitOn(text, sep) ==
  IF \A i \in 1..Len(text) : text[i] # sep THEN << text >>
  ELSE LET k == CHOOSE i \in 1..Len(text) :
                   text[i] = sep /\ \A j \in 1..(i - 1) : text[j] # sep
       IN << SubSeq(text, 1, k - 1) >> \o SplitOn(SubSeq(text, k + 1, Len(text)), sep)

SavedAlone == arg.fn = "save_transcript"

\* the timestamped section of the written file, line by line
SectionLines == SplitOn(out.content.lines, "\n")

SegmentLine(seg) == format_timestamp(seg.start) \o << " " >> \o seg.text

RECURSIVE SpaceJoined(_)
SpaceJoined(segs) ==
  IF Len(segs) = 1 THEN segs[1].text
  ELSE SpaceJoined(SubSeq(segs, 1, Len(segs) - 1)) \o << " " >> \o segs[Len(segs)].text

OneLineEach(segs) ==
  /\ Len(SectionLines) = Len(segs)
  /\ \A i \in 1..Len(segs) : SectionLines[i] = SegmentLine(segs[i])

TextsJoined(segs) ==
  /\ out.content.full_text = SpaceJoined(segs)
  /\ out.record.transcript = out.content.full_text
  /\ out.record.segments_count = Len(segs)

SingleLine(text) == \A i \in 1..Len(text) : text[i] # "\n"

\* C13 as stated: for every non-empty segment list and any metadata the
\* timestamped section of the file has exactly one line "<timestamp> <text>"
\* per segment, in input order, and the plain-text section is the single-space
\* join of the texts, which is the transcript field of the success record.
C13_OneLinePerSegment ==
  SavedAlone => /\ OneLineEach(arg.x.segments)
                /\ TextsJoined(arg.x.segments)

\* C13 amended: the same, the one-line-per-segment part for segment lists
\* whose texts hold no line break; a text with a line break spreads over
\* several lines of the file.
C13_SegmentsInOrder ==
  SavedAlone =>
    /\ (\A i \in 1..Len(arg.x.segments) : SingleLine(arg.x.segments[i].text))
         => OneLineEach(arg.x.segments)
    /\ TextsJoined(arg.x.segments)

\* C13 witness: two segments handed over with the later one first are written
\* as two lines in that order.
C13_Witness ==
  /\ SavedAlone
  /\ Len(arg.x.segments) = 2
  /\ arg.x.segments[1].start > arg.x.segments[2].start
  /\ arg.x.segments[1].text # << >>
  /\ OneLineEach(arg.x.segments)
  /\ TextsJoined(arg.x.segments)

Classified == arg.fn = "detect_platform"

\* pat in url, whatever the case of the URL's letters
Has(pat) == Contains(Lower(arg.x), pat)

YoutubeCom == << "y", "o", "u", "t", "u", "b", "e", ".", "c", "o", "m" >>
YoutuBe == << "y", "o", "u", "t", "u", ".", "b", "e" >>
InstagramCom == << "i", "n", "s", "t", "a", "g", "r", "a", "m", ".", "c", "o", "m" >>
VkCom == << "v", "k", ".", "c", "o", "m" >>
VkVideo == << "v", "k", "v", "i", "d", "e", "o" >>
RutubeRu == << "r", "u", "t", "u", "b", "e", ".", "r", "u" >>
TiktokCom == << "t", "i", "k", "t", "o", "k", ".", "c", "o", "m" >>
KnownSubstrings ==
  { YoutubeCom, YoutuBe, InstagramCom, VkCom, VkVideo, RutubeRu, TiktokCom }

\* C14 as stated: "YouTube" for every URL containing "youtube.com" or
\* "youtu.be", "TikTok" for every URL containing "tiktok.com", "Video" for
\* every URL containing none of the known substrings, case-insensitively.
C14_Labels ==
  Classified =>
    /\ (Has(YoutubeCom) \/ Has(YoutuBe)) => out = YouTube
    /\ Has(TiktokCom) => out = TikTok
    /\ (\A pat \in KnownSubstrings : ~Has(pat)) => out = Video

\* C14 amended: the table is tried in order and the first match wins, so
\* "TikTok" is the label of the URLs that contain "tiktok.com" and none of the
\* substrings tried before it; the other two parts as stated.
C14_FirstMatch ==
  Classified =>
    /\ (Has(YoutubeCom) \/ Has(YoutuBe)) => out = YouTube
    /\ (Has(TiktokCom) /\ \A pat \in KnownSubstrings \ { TiktokCom } : ~Has(pat))
         => out = TikTok
    /\ (\A pat \in KnownSubstrings : ~Has(pat)) => out = Video

\* C14 witness: a URL written in capitals that names only TikTok is labelled
\* "TikTok".
C14_Witness ==
  /\ Classified
  /\ arg.x # Lower(arg.x)
  /\ Has(TiktokCom)
  /\ \A pat \in KnownSubstrings \ { TiktokCom } : ~Has(pat)
  /\ out = TikTok

Sanitized == arg.fn = "sanitize_filename"

ForbiddenChars == { "<", ">", ":", "\"", "/", "\\", "|", "?", "*" }

\* C15: for every input string the sanitised name holds none of the characters
\* < > : " / \ | ? *, is at most 100 characters long, and sanitising it again
\* gives it back.
C15_SanitizeFixedPoint ==
  Sanitized =>
    /\ \A i \in 1..Len(out) : out[i] \notin ForbiddenChars
    /\ Len(out) <= 100
    /\ sanitize_filename(out) = out

\* C15 witness: a name longer than the limit that holds a forbidden character
\* and whose cut falls after a blank comes out shorter than the limit.
C15_Witness ==
  /\ Sanitized
  /\ Len(arg.x) > 100
  /\ \E i \in 1..Len(arg.x) : arg.x[i] \in ForbiddenChars
  /\ out # << >>
  /\ Len(out) < 100
  /\ Len(SelectSeq(arg.x, LAMBDA c : c \notin ForbiddenChars)) > 100

Formatted == arg.fn = "format"

IsDigits(text) ==
  /\ text # << >>
  /\ \A i \in 1..Len(text) : \E d \in 1..10 : DigitChars[d] = text[i]

RECURSIVE Num(_)
\* int(text) for a text of digits
Num(text) ==
  IF text = << >> THEN 0
  ELSE 10 * Num(SubSeq(text, 1, Len(text) - 1))
       + (CHOOSE d \in 0..9 : DigitChars[d + 1] = text[Len(text)])

\* the fields between the brackets of the timestamp, and those of the duration
TimestampFields == SplitOn(SubSeq(out.timestamp, 2, Len(out.timestamp) - 1), ":")
DurationFields == SplitOn(out.duration, ":")

\* hours, minutes and seconds read back from two or three fields
Hms(fields) ==
  IF Len(fields) = 3 THEN << Num(fields[1]), Num(fields[2]), Num(fields[3]) >>
  ELSE << 0, Num(fields[1]), Num(fields[2]) >>

\* both texts read back as the same (h, m, s), which adds up to the input;
\* hours are printed only when there are any; the duration's leading field is
\* unpadded, every other field of the duration and the minute and second
\* fields of the timestamp have two digits
Decomposed ==
  /\ out.timestamp[1] = "[" /\ out.timestamp[Len(out.timestamp)] = "]"
  /\ Len(TimestampFields) \in {2, 3} /\ Len(DurationFields) = Len(TimestampFields)
  /\ \A i \in 1..Len(TimestampFields) :
        IsDigits(TimestampFields[i]) /\ IsDigits(DurationFields[i])
  /\ LET t == Hms(TimestampFields)
         d == Hms(DurationFields)
     IN /\ t = d
        /\ t[2] \in 0..59 /\ t[3] \in 0..59
        /\ t[1] * 3600 + t[2] * 60 + t[3] = arg.x
        /\ Len(TimestampFields) = (IF t[1] = 0 THEN 2 ELSE 3)
  /\ \A i \in 2..Len(TimestampFields) :
        Len(TimestampFields[i]) = 2 /\ Len(DurationFields[i]) = 2
  /\ DurationFields[1] = << "0" >> \/ DurationFields[1][1] # "0"

\* C16 as stated: for every non-negative whole number of seconds the two
\* formatters decompose it into the same (h, m, s) with m and s in 0..59 and
\* h*3600 + m*60 + s the input; the timestamp is "[MM:SS]" when h = 0 and
\* "[HH:MM:SS]" when h > 0, every field two digits; the duration is "M:SS" or
\* "H:MM:SS" with its leading unit unpadded.
C16_TwoDigitFields ==
  Formatted => /\ Decomposed
               /\ Len(TimestampFields[1]) = 2

\* C16 amended: the same, the hours field of the timestamp being padded to two
\* digits and longer from a hundred hours on.
C16_PaddedFields ==
  Formatted =>
    /\ Decomposed
    /\ \/ Len(TimestampFields[1]) = 2
       \/ /\ Len(TimestampFields) = 3
          /\ Num(TimestampFields[1]) >= 100
          /\ TimestampFields[1][1] # "0"

\* C16 witness: 3725 seconds print as "[01:02:05]" and "1:02:05".
C16_Witness ==
  /\ Formatted
  /\ arg.x = 3725
  /\ out.timestamp = << "[", "0", "1", ":", "0", "2", ":", "0", "5", "]" >>
  /\ out.duration = << "1", ":", "0", "2", ":", "0", "5" >>

(* ------------------------------------------------ claims about the flows *)
\* the stages of the URL flow, in the order of the handler's text
UrlStageOrder == << "probe", "download", "locate", "transcribe", "save" >>

\* the stages invoked so far, the finally block left out
WorkStages == SelectSeq(trace, LAMBDA st : st # "cleanup")

\* C17: in one transcribe_url job the stages run in the order probe, download,
\* artifact location, transcription, persistence, each at most once;
\* transcription is invoked only after the download reported success and an
\* artifact was located, persistence only after transcription returned at
\* least one segment.
C17_StageOrder ==
  job.tool = "transcribe_url" =>
    /\ \E k \in 0..Len(UrlStageOrder) : WorkStages = SubSeq(UrlStageOrder, 1, k)
    /\ (pc = "transcribe" \/ "transcribe" \in Stages) =>
         /\ job.acquired = "ok"
         /\ "locate" \in Stages
    /\ pc = "transcribe" => job.actual_file \in GlobAudio(temp)
    /\ (pc = "save" \/ "save" \in Stages) =>
         /\ job.spoke = "some"
         /\ "transcribe" \in Stages

\* C17 witness: a URL job has returned a success record after its five stages
\* and its cleanup.
C17_Witness ==
  /\ Returned /\ job.tool = "transcribe_url"
  /\ job.result.kind = "success"
  /\ trace = UrlStageOrder \o << "cleanup" >>

\* C18: a removal that fails in the URL flow's cleanup is swallowed: the step
\* leaves the job's result and exception as they are and goes on to return,
\* every other matching file is removed (the audio files left are as many as
\* the removals that failed), and the call does not raise.
C18_CleanupSwallowsFailures ==
  /\ [][pc = "cleanup" =>
          /\ job' = job
          /\ pc' = "return"
          /\ temp' \subseteq temp
          /\ (temp \ temp') \subseteq GlobAudio(temp)
          /\ Cardinality(GlobAudio(temp')) = faults' - faults]_vars
  /\ []((Returned /\ unlinkFailed) =>
          /\ ~response.raised
          /\ response.text = JsonDumps(IF job.exc # None THEN Error(<< job.exc >>)
                                       ELSE job.result))

\* C18 witness: a URL job has returned its success record although a removal
\* of its cleanup failed, one audio file being left.
C18_Witness ==
  /\ Returned /\ unlinkFailed
  /\ job.result.kind = "success"
  /\ response.text = JsonDumps(job.result)
  /\ Cardinality(GlobAudio(temp)) = 1

\* C19: no step of a transcribe_file call, on any of its paths, changes the
\* temp directory: it creates no file there and removes none, stale audio of
\* earlier URL jobs included.
C19_FileFlowKeepsTemp ==
  [][job'.tool = "transcribe_file" => temp' = temp]_vars

\* C19 witness: a transcribe_file job has returned a success record while an
\* audio file left by an earlier URL job is still in the temp directory.
C19_Witness ==
  /\ Returned /\ job.tool = "transcribe_file"
  /\ job.result.kind = "success"
  /\ GlobAudio(temp) # {}

====
